---- MODULE Spec2Model ----
(***************************************************************************)
(* Model of src/jeopardy/jeopardy.js: the Jeopardy board page.             *)
(*                                                                         *)
(* One page load runs two asynchronous flows over the global `categories`: *)
(*   flow A  fetchAllCategories(), called when the script is evaluated;    *)
(*   flow B  setupAndStart(), called by the document-ready handler.        *)
(* The user clicks cells of the board and the start/restart button.  Every *)
(* await of a network call is a point where the other flow, or a click,    *)
(* may run; the code between two awaits is one atomic step.                *)
(***************************************************************************)
EXTENDS Integers, Sequences, FiniteSets

VARIABLES
    categories,       \* the global array `categories`
    pcA,              \* where fetchAllCategories is suspended
    catIdx,           \* how many elements of categoryIds its for-of loop has taken
    categoryIds,      \* its local categoryIds (<<>> until getCategoryIds returns)
    pcB,              \* where the ready handler / setupAndStart is suspended
    fillTableResult,  \* the promise returned by fillTable(): none, fulfilled, rejected
    tableHeader,      \* rows of #tableHeader, each a sequence of cell texts
    board,            \* cells of "#board tbody": id |-> html
    view,             \* which of #loadingView / #gameView is displayed
    startBtnText,     \* startBtn.innerText
    lastClick,        \* history: the branch the last handleClick call took
    responses,        \* history: the category responses flow A has received, each
                      \*          with the random distance its sample was drawn at
    game              \* history: number of the current page load

vars == <<categories, pcA, catIdx, categoryIds, pcB, fillTableResult, tableHeader,
          board, view, startBtnText, lastClick, responses, game>>

----------------------------------------------------------------------------
(* Program constants *)

NUM_CATEGORIES == 6

NUM_CLUES_PER_CAT == 5

(* Bounds of the model *)

\* the random endpoint, asked for 100 clue records, answers with
\* NUM_CATEGORIES .. MaxItems of them
MaxItems == 7

\* category identifiers carried by the random endpoint's records: 1 .. MaxCatId
MaxCatId == 4

\* a category response carries NUM_CLUES_PER_CAT - 1 .. MaxClues clues
MaxClues == 6

\* _.sampleSize draws each random index at distance 0 or MaxRand from its lower end
MaxRand == 1

\* at most MaxVaried getCategory calls of a page load deviate from the
\* baseline (a success carrying NUM_CLUES_PER_CAT clues, sampled at distance 0)
MaxVaried == 1

\* page loads: the first one and MaxGames - 1 restarts
MaxGames == 2

----------------------------------------------------------------------------
(* JavaScript values *)

Null == "null"

\* The object literal {} : no title, no clues.
EmptyObject == [empty |-> TRUE, title |-> "", clues |-> <<>>]

Min(a, b) == IF a < b THEN a ELSE b

\* The placeholder glyph fillTable appends to every cell.
Placeholder == <<"i", "fa-circle-question">>

Digits == <<"0", "1", "2", "3", "4", "5", "6", "7", "8", "9">>

\* Number to string, as a template literal formats it: a sequence of characters.
RECURSIVE ToString(_)
ToString(n) ==
    IF n < 10 THEN <<Digits[n + 1]>>
    ELSE ToString(n \div 10) \o <<Digits[(n % 10) + 1]>>

\* `${categoryIdx}-${clueIdx}`
CellId(categoryIdx, clueIdx) == ToString(categoryIdx) \o <<"-">> \o ToString(clueIdx)

\* String.prototype.split(sep) for a one-character separator.
RECURSIVE Split(_, _)
Split(s, sep) ==
    IF \A i \in 1..Len(s) : s[i] # sep THEN <<s>>
    ELSE LET p == CHOOSE i \in 1..Len(s) : s[i] = sep /\ \A j \in 1..(i - 1) : s[j] # sep
         IN  <<SubSeq(s, 1, p - 1)>> \o Split(SubSeq(s, p + 1, Len(s)), sep)

DigitValue(ch) == CHOOSE d \in 0..9 : Digits[d + 1] = ch

IsDigit(ch) == \E d \in 0..9 : Digits[d + 1] = ch

\* An array index written as a property key: a canonical decimal string.
IsArrayIndex(key) ==
    /\ Len(key) >= 1
    /\ \A i \in 1..Len(key) : IsDigit(key[i])
    /\ (Len(key) > 1 => key[1] # "0")

RECURSIVE IndexValue(_)
IndexValue(key) ==
    IF Len(key) = 1 THEN DigitValue(key[1])
    ELSE 10 * IndexValue(SubSeq(key, 1, Len(key) - 1)) + DigitValue(key[Len(key)])

\* array[key] is defined: JavaScript indexes from 0, the sequences here from 1.
HasElement(array, key) == IsArrayIndex(key) /\ IndexValue(key) < Len(array)

ElementAt(array, key) == array[IndexValue(key) + 1]

\* String.prototype.toUpperCase on the titles the model's API serves.
toUpperCase(s) ==
    CASE s = "history" -> "HISTORY"
      [] s = "Science" -> "SCIENCE"
      [] s = "3 little words" -> "3 LITTLE WORDS"
      [] s = "POTPOURRI" -> "POTPOURRI"
      [] OTHER -> s

----------------------------------------------------------------------------
(* The trivia API, as far as the page reads its responses *)

TitleOf(catId) ==
    CASE catId % 4 = 1 -> "history"
      [] catId % 4 = 2 -> "Science"
      [] catId % 4 = 3 -> "3 little words"
      [] OTHER -> "POTPOURRI"

\* GET random?count=100: a failure, or n clue records with their category_id.
RandomFailure == [ok |-> FALSE, data |-> <<>>]

RandomSuccess(n) ==
    [ok |-> TRUE, data |-> [i \in 1..n |-> [category_id |-> ((i - 1) % MaxCatId) + 1]]]

RandomResponses ==
    {RandomFailure} \cup {RandomSuccess(n) : n \in NUM_CATEGORIES..MaxItems}

\* GET category?id=catId: a failure, or the category's title and its n clues.
CategoryFailure(catId) == [ok |-> FALSE, id |-> catId, title |-> "", clues |-> <<>>]

CategorySuccess(catId, n) ==
    [ok |-> TRUE, id |-> catId, title |-> TitleOf(catId),
     clues |-> [k \in 1..n |-> [question |-> <<"Q", catId, k>>,
                                answer |-> <<"A", catId, k>>]]]

CategoryResponses(catId) ==
    {CategoryFailure(catId)}
        \cup {CategorySuccess(catId, n) : n \in (NUM_CLUES_PER_CAT - 1)..MaxClues}

----------------------------------------------------------------------------
(* The functions of the page *)

\* getCategoryIds, from the response of its fetch on: the category_id of the
\* first NUM_CATEGORIES records, or [] when the call failed.
getCategoryIds(response) ==
    IF ~response.ok THEN <<>>
    ELSE LET categoryIdsArr == [i \in 1..Len(response.data) |-> response.data[i].category_id]
         IN  SubSeq(categoryIdsArr, 1, Min(NUM_CATEGORIES, Len(categoryIdsArr)))

\* lodash's shuffleSelf: for index = 0 .. size - 1 swap array[index] with
\* array[rand], rand drawn in index .. lastIndex; here rand lies rnd above index.
RECURSIVE shuffleSelf(_, _, _, _)
shuffleSelf(array, size, index, rnd) ==
    IF index > size THEN SubSeq(array, 1, size)
    ELSE LET rand == Min(index + rnd, Len(array))
             swapped == [array EXCEPT ![rand] = array[index], ![index] = array[rand]]
         IN  shuffleSelf(swapped, size, index + 1, rnd)

\* _.sampleSize(collection, n): n elements (all of them when there are fewer)
\* at distinct positions of the collection.
sampleSize(collection, n, rnd) ==
    shuffleSelf(collection, Min(n, Len(collection)), 1, rnd)

\* getCategory, from the response of its fetch on: the title and a sample of
\* the clues, every clue with showing: null; {} when the call failed.
getCategory(response, rnd) ==
    IF ~response.ok THEN EmptyObject
    ELSE LET allClues == response.clues
             randomClues == sampleSize(allClues, NUM_CLUES_PER_CAT, rnd)
             clues == [i \in 1..Len(randomClues) |->
                          [question |-> randomClues[i].question,
                           answer |-> randomClues[i].answer,
                           showing |-> Null]]
         IN  [empty |-> FALSE, title |-> response.title, clues |-> clues]

\* A loop that drops the result of a failed call instead of pushing it.
PushUnlessEmpty(array, categoryData) ==
    IF categoryData.empty THEN array ELSE Append(array, categoryData)

\* categories.push(categoryData)
Push(array, categoryData) == Append(array, categoryData)

\* A handler whose last branch hides the clue again.
RevealWraps(clue) ==
    IF clue.showing = Null
        THEN [branch |-> "question", msg |-> clue.question, showing |-> "question"]
    ELSE IF clue.showing = "question"
        THEN [branch |-> "answer", msg |-> clue.answer, showing |-> "answer"]
    ELSE [branch |-> "question", msg |-> Placeholder, showing |-> Null]

\* A handler whose last branch displays the question over the answer.
RevealRepeats(clue) ==
    IF clue.showing = Null
        THEN [branch |-> "question", msg |-> clue.question, showing |-> "question"]
    ELSE IF clue.showing = "question"
        THEN [branch |-> "answer", msg |-> clue.answer, showing |-> "answer"]
    ELSE [branch |-> "answer", msg |-> clue.question, showing |-> clue.showing]

\* The branch of handleClick for a clue: what it displays and what showing becomes.
Reveal(clue) ==
    IF clue.showing = Null
        THEN [branch |-> "question", msg |-> clue.question, showing |-> "question"]
    ELSE IF clue.showing = "question"
        THEN [branch |-> "answer", msg |-> clue.answer, showing |-> "answer"]
    ELSE [branch |-> "ignored", msg |-> <<>>, showing |-> clue.showing]

\* categories[catId].clues[clueId] can be read and its .showing tested: the
\* category exists, has clues, and has a clue at clueId.
Addressable(cats, catId, clueId) ==
    /\ HasElement(cats, catId)
    /\ ~ElementAt(cats, catId).empty
    /\ HasElement(ElementAt(cats, catId).clues, clueId)

\* The header row fillTable builds: one cell per category, its title in upper
\* case.  Reading .title.toUpperCase of {} throws a TypeError.
HeaderThrows(cats) == \E i \in 1..Len(cats) : cats[i].empty

HeaderRow(cats) == [i \in 1..Len(cats) |-> toUpperCase(cats[i].title)]

\* The ids of the cells fillTable appends to the body.
GridIds ==
    {CellId(categoryIdx, clueIdx) :
        categoryIdx \in 0..NUM_CLUES_PER_CAT, clueIdx \in 0..(NUM_CLUES_PER_CAT - 1)}

Grid == [id \in GridIds |-> Placeholder]

----------------------------------------------------------------------------
(* The state machine *)

\* The cells the user clicks in the model: the first and the last of the grid.
ClickIds == {CellId(0, 0), CellId(NUM_CATEGORIES - 1, NUM_CLUES_PER_CAT - 1)}

\* The baseline outcome of a getCategory call.
Baseline(catId) == [response |-> CategorySuccess(catId, NUM_CLUES_PER_CAT), rnd |-> 0]

Varied(log) == Cardinality({i \in 1..Len(log) : log[i] # Baseline(log[i].response.id)})

\* The page after its script has been evaluated: categories = [], and
\* fetchAllCategories() suspended in getCategoryIds on its fetch.
Loaded ==
    /\ categories = <<>>
    /\ pcA = "getCategoryIds"
    /\ catIdx = 0
    /\ categoryIds = <<>>
    /\ pcB = "idle"
    /\ fillTableResult = "none"
    /\ tableHeader = <<>>
    /\ board = [id \in {} |-> Placeholder]
    /\ view = "loading"
    /\ startBtnText = "Start!"
    /\ lastClick = [id |-> <<>>, branch |-> "none"]
    /\ responses = <<>>

Init == Loaded /\ game = 1

\* fetchAllCategories resumes with the result of getCategoryIds and, unless the
\* list is empty, suspends in getCategory on the fetch of the first category.
IdsArrive ==
    /\ pcA = "getCategoryIds"
    /\ \E response \in RandomResponses :
          /\ categoryIds' = getCategoryIds(response)
          /\ pcA' = IF getCategoryIds(response) = <<>> THEN "done" ELSE "getCategory"
          /\ catIdx' = IF getCategoryIds(response) = <<>> THEN 0 ELSE 1
    /\ UNCHANGED <<categories, pcB, fillTableResult, tableHeader, board, view,
                   startBtnText, lastClick, responses, game>>

\* fetchAllCategories resumes with the result of getCategory, pushes it, and
\* suspends on the fetch of the next category or returns.
CategoryArrives ==
    /\ pcA = "getCategory"
    /\ \E response \in CategoryResponses(categoryIds[catIdx]), rnd \in {0, MaxRand} :
          /\ \/ [response |-> response, rnd |-> rnd] = Baseline(categoryIds[catIdx])
             \/ Varied(responses) < MaxVaried
          /\ categories' = Push(categories, getCategory(response, rnd))
          /\ responses' = Append(responses, [response |-> response, rnd |-> rnd])
    /\ IF catIdx < Len(categoryIds)
          THEN catIdx' = catIdx + 1 /\ pcA' = "getCategory"
          ELSE catIdx' = catIdx /\ pcA' = "done"
    /\ UNCHANGED <<categoryIds, pcB, fillTableResult, tableHeader, board, view,
                   startBtnText, lastClick, game>>

\* The document-ready handler: setupAndStart() runs up to the fetch of
\* getCategoryIds, then hideLoadingView() runs.
Ready ==
    /\ pcB = "idle"
    /\ pcB' = "getCategoryIds"
    /\ view' = "playing"
    /\ UNCHANGED <<categories, pcA, catIdx, categoryIds, fillTableResult, tableHeader,
                   board, startBtnText, lastClick, responses, game>>

\* setupAndStart resumes with catInfo, renames the button and calls fillTable,
\* which reads the global categories and runs to its end or to a TypeError.
FillTable ==
    /\ pcB = "getCategoryIds"
    /\ \E response \in RandomResponses :
          LET catInfo == getCategoryIds(response)
          IN  /\ startBtnText' = "Restart!"
              /\ IF HeaderThrows(categories)
                    THEN /\ tableHeader' = <<>>
                         /\ board' = board
                         /\ fillTableResult' = "rejected"
                    ELSE /\ tableHeader' = <<HeaderRow(categories)>>
                         /\ board' = Grid
                         /\ fillTableResult' = "fulfilled"
    /\ pcB' = "done"
    /\ UNCHANGED <<categories, pcA, catIdx, categoryIds, view, lastClick, responses, game>>

\* handleClick for a click on the cell with this id.
HandleClick(id) ==
    LET catId == Split(id, "-")[1]
        clueId == Split(id, "-")[2]
    IN  IF ~Addressable(categories, catId, clueId)
           THEN /\ lastClick' = [id |-> id, branch |-> "TypeError"]
                /\ UNCHANGED <<categories, board>>
           ELSE LET clue == ElementAt(ElementAt(categories, catId).clues, clueId)
                    r == Reveal(clue)
                IN  /\ lastClick' = [id |-> id, branch |-> r.branch]
                    /\ IF r.branch = "ignored"
                          THEN UNCHANGED <<categories, board>>
                          ELSE /\ categories' =
                                     [categories EXCEPT
                                        ![IndexValue(catId) + 1].clues[IndexValue(clueId) + 1].showing
                                            = r.showing]
                               /\ board' = [board EXCEPT ![catId \o <<"-">> \o clueId] = r.msg]

Click ==
    /\ \E id \in (DOMAIN board) \cap ClickIds : HandleClick(id)
    /\ UNCHANGED <<pcA, catIdx, categoryIds, pcB, fillTableResult, tableHeader, view,
                   startBtnText, responses, game>>

\* A click on the start/restart button: location.reload() loads the page anew
\* (the .then on its result throws in the page that is being left).
Restart ==
    /\ game < MaxGames
    /\ game' = game + 1
    /\ categories' = <<>>
    /\ pcA' = "getCategoryIds"
    /\ catIdx' = 0
    /\ categoryIds' = <<>>
    /\ pcB' = "idle"
    /\ fillTableResult' = "none"
    /\ tableHeader' = <<>>
    /\ board' = [id \in {} |-> Placeholder]
    /\ view' = "loading"
    /\ startBtnText' = "Start!"
    /\ lastClick' = [id |-> <<>>, branch |-> "none"]
    /\ responses' = <<>>

Next == IdsArrive \/ CategoryArrives \/ Ready \/ FillTable \/ Click \/ Restart

Spec == Init /\ [][Next]_vars

----------------------------------------------------------------------------
(* Properties *)

\* The clue a cell id addresses, where there is one.
ClueOf(cats, id) ==
    ElementAt(ElementAt(cats, Split(id, "-")[1]).clues, Split(id, "-")[2])

Resolves(cats, id) == Addressable(cats, Split(id, "-")[1], Split(id, "-")[2])

Forward == {<<Null, Null>>, <<Null, "question">>, <<"question", "question">>,
            <<"question", "answer">>, <<"answer", "answer">>}

\* C1: within a page load, every step takes every clue's visibility from its
\* value to the same value or to the next one of hidden, question, answer, and
\* only a click on the clue's own cell changes it; no clue is dropped.
C1_VisibilityForward ==
    [][game' = game =>
         \A i \in 1..Len(categories) : \A j \in 1..Len(categories[i].clues) :
            /\ i <= Len(categories')
            /\ j <= Len(categories'[i].clues)
            /\ <<categories[i].clues[j].showing, categories'[i].clues[j].showing>> \in Forward
            /\ categories'[i].clues[j].showing # categories[i].clues[j].showing
                  => lastClick'.id = CellId(i - 1, j - 1)]_vars

\* C1 witness: a clue has been taken through question to answer.
C1_Witness ==
    \E i \in 1..Len(categories) : \E j \in 1..Len(categories[i].clues) :
        /\ categories[i].clues[j].showing = "answer"
        /\ lastClick = [id |-> CellId(i - 1, j - 1), branch |-> "answer"]

\* C2: a click on a cell whose clue is answer-shown changes no clue, no cell
\* and no other part of the page, and the cell goes on displaying the answer.
C2_AnswerClickNoOp ==
    [][\A id \in ClickIds :
          (/\ id \in DOMAIN board
           /\ Resolves(categories, id)
           /\ ClueOf(categories, id).showing = "answer"
           /\ HandleClick(id))
          => /\ UNCHANGED <<categories, board, tableHeader, view, startBtnText,
                            fillTableResult, pcA, catIdx, categoryIds, pcB>>
             /\ board'[id] = ClueOf(categories, id).answer]_vars

\* C2 witness: the last click was ignored, on a cell that displays its answer.
C2_Witness ==
    /\ lastClick.branch = "ignored"
    /\ lastClick.id \in DOMAIN board
    /\ ClueOf(categories, lastClick.id).showing = "answer"
    /\ board[lastClick.id] = ClueOf(categories, lastClick.id).answer

Failed == {i \in 1..Len(responses) : ~responses[i].response.ok}

AllHidden(cats) ==
    \A i \in 1..Len(cats) : \A j \in 1..Len(cats[i].clues) : cats[i].clues[j].showing = Null

\* A category as it was pushed: every clue hidden.
AsPushed(category) ==
    [category EXCEPT !.clues = [j \in 1..Len(category.clues) |->
                                    [category.clues[j] EXCEPT !.showing = Null]]]

\* C3: when fetchAllCategories has returned and getCategoryIds and every
\* getCategory succeeded, categories holds NUM_CATEGORIES entries of
\* NUM_CLUES_PER_CAT clues each.
C3_FullBoard ==
    (pcA = "done" /\ categoryIds # <<>> /\ Failed = {})
        => /\ Len(categories) = NUM_CATEGORIES
           /\ \A i \in 1..Len(categories) : Len(categories[i].clues) = NUM_CLUES_PER_CAT

\* C4: when fetchAllCategories has returned and exactly one getCategory call
\* failed, categories holds NUM_CATEGORIES entries, entry i answering the
\* request for categoryIds[i]: {} for the failed call, and for every other call
\* what getCategory makes of that call's response alone.
C4_OneFailure ==
    (pcA = "done" /\ Cardinality(Failed) = 1)
        => /\ Len(categories) = NUM_CATEGORIES
           /\ Len(responses) = NUM_CATEGORIES
           /\ \A i \in 1..NUM_CATEGORIES :
                 /\ responses[i].response.id = categoryIds[i]
                 /\ i \in Failed => categories[i] = EmptyObject
                 /\ i \notin Failed =>
                       /\ AsPushed(categories[i])
                             = getCategory(responses[i].response, responses[i].rnd)
                       /\ categories[i].title = TitleOf(categoryIds[i])

\* C4 witness: the sequence has ended after a failure in its middle.
C4_Witness ==
    /\ pcA = "done"
    /\ Failed = {3}
    /\ Len(categories) = NUM_CATEGORIES
    /\ categories[3] = EmptyObject
    /\ ~categories[4].empty

\* C5: fillTable has run only if fetchAllCategories has returned.
C5_RenderAfterFetch == fillTableResult # "none" => pcA = "done"

FetchFailed ==
    \/ pcA = "done" /\ categoryIds = <<>>
    \/ \E i \in 1..Len(categories) : categories[i].empty

\* C6: when a fetch has failed and fillTable has run, fillTable has finished
\* without an error and has built the header row and the grid.
C6_IncompleteBoard ==
    (pcB = "done" /\ FetchFailed)
        => /\ fillTableResult = "fulfilled"
           /\ Len(tableHeader) = 1
           /\ DOMAIN board # {}

\* C7: when the fetch sequence of a restarted page ends, categories holds one
\* entry per category requested in this page load and every clue is hidden.
C7_RestartFresh ==
    [][(game > 1 /\ game' = game /\ pcA # "done" /\ pcA' = "done")
          => /\ Len(categories') = Len(categoryIds')
             /\ AllHidden(categories')]_vars

PairIds(cats) ==
    {CellId(i - 1, j - 1) : i \in 1..Len(cats), j \in 1..NUM_CLUES_PER_CAT}
        \cap {id \in GridIds : Resolves(cats, id)}

\* C8: the cells of the board are one per (category, clue) pair of categories,
\* every cell resolves to a clue, and no click has addressed a missing one.
C8_CellsResolve ==
    DOMAIN board # {}
        => /\ \A id \in DOMAIN board : Resolves(categories, id)
           /\ DOMAIN board = PairIds(categories)
           /\ lastClick.branch # "TypeError"

Outstanding ==
    (IF pcA \in {"getCategoryIds", "getCategory"} THEN 1 ELSE 0)
        + (IF pcB = "getCategoryIds" THEN 1 ELSE 0)

\* C9: at most one fetch is outstanding.
C9_OneFetch == Outstanding <= 1

\* C10: the playing view is displayed only if fillTable has run.
C10_ViewAfterRender == view = "playing" => fillTableResult # "none"

====
